---- MODULE Spec2Model ----
(***************************************************************************)
(* Model of the LQR / MPC cart-pole notebook (src/mpc.ipynb).              *)
(*                                                                         *)
(* Numbers are integers: the arithmetic of the notebook (matrix products,  *)
(* the Euler update, quadratic forms) is carried out exactly, and the      *)
(* plant and cost parameters are taken in integer units.  Vectors are      *)
(* tuples, matrices are tuples of rows, a trajectory array is a tuple of   *)
(* its columns (only the columns written so far).                          *)
(***************************************************************************)
EXTENDS Integers, Sequences, FiniteSets, TLC

\* ---------------------------------------------------------------- bounds
MaxN == 2          \* horizons 1..MaxN
MaxSteps == 2      \* loop lengths 0..MaxSteps
MaxDt == 2         \* time steps 1..MaxDt
MaxU == 2          \* control values -MaxU..MaxU

\* ------------------------------------------------------- linear algebra
RECURSIVE SumTo(_, _)
\* sum of f[1..n]
SumTo(f, n) == IF n = 0 THEN 0 ELSE f[n] + SumTo(f, n - 1)

\* np.dot of two vectors
Dot(a, b) == SumTo([i \in 1..Len(a) |-> a[i] * b[i]], Len(a))

\* np.dot(M, v): matrix times vector
MatVec(Mx, v) == [i \in 1..Len(Mx) |-> Dot(Mx[i], v)]

VecAdd(a, b) == [i \in 1..Len(a) |-> a[i] + b[i]]

VecScale(a, c) == [i \in 1..Len(a) |-> a[i] * c]

MatAdd(Ma, Mb) == [i \in 1..Len(Ma) |-> VecAdd(Ma[i], Mb[i])]

MatScale(Ma, c) == [i \in 1..Len(Ma) |-> VecScale(Ma[i], c)]

\* np.eye(n)
Eye(n) == [i \in 1..n |-> [j \in 1..n |-> IF i = j THEN 1 ELSE 0]]

\* cvxpy quad_form(v, M) = v' M v
quad_form(v, Mx) == Dot(v, MatVec(Mx, v))

\* ---------------------------------------------------------------- plant
\* cart mass, pendulum mass, pendulum length, gravity (integer units)
M == 1
m == 1
l == 1
g == 2

A == << <<0, 1, 0, 0>>,
        <<0, 0, 0 - ((m * g) \div M), 0>>,
        <<0, 0, 0, 1>>,
        <<0, 0, (((m + M) * g) \div l) \div M, 0>> >>

B == << <<0>>,
        <<1 \div M>>,
        <<0>>,
        <<0 - ((1 \div l) \div M)>> >>

\* def xdot(x,u): return np.dot(A,x)+np.dot(B,u)
xdot(xx, uu) == VecAdd(MatVec(A, xx), MatVec(B, uu))

dim_x == 4
dim_u == 1

\* stage weights (integer units) and the Riccati matrix returned by
\* scipy.linalg.solve_continuous_are (a symmetric positive definite matrix)
Q == << <<1, 0, 0, 0>>, <<0, 100, 0, 0>>, <<0, 0, 1, 0>>, <<0, 0, 0, 1>> >>

R == MatScale(Eye(1), 1)

P == << <<3, 1, 0, 0>>, <<1, 4, 0, 0>>, <<0, 0, 5, 1>>, <<0, 0, 1, 2>> >>

\* K = R^-1 B' P  (R is the 1x1 identity here)
K == << [j \in 1..dim_x |-> SumTo([i \in 1..dim_x |-> B[i][1] * P[i][j]], dim_x)] >>

\* cvxpy's None (a variable or parameter without a value)
None == << >>

\* float("inf"), returned by solve for an infeasible program; objective
\* values are nonnegative
np_inf == 0 - 1

\* ----------------------------------------------------------------- state
VARIABLES
  prog,    \* the scenario run: an MPC cell pair or a simulator call
  pc,      \* the statement about to execute
  exc,     \* the exception that ended the run ("none" while running)
  N,       \* horizon of the program
  steps,   \* number of loop iterations requested
  dt,      \* time step
  x0,      \* initial state
  mpc,     \* the cvxpy Problem: objective, constraints, parameter, variables
  x,       \* plant state of the MPC loop
  t,       \* loop index
  Xtraj,   \* MPC: recorded states (columns written so far)
  Utraj,   \* MPC: recorded controls
  Jtraj,   \* MPC: recorded solve values
  Xsim,    \* simulator: X (columns written so far)
  Usim     \* simulator: U (given for open loop, recorded for closed loop)

vars == <<prog, pc, exc, N, steps, dt, x0, mpc, x, t, Xtraj, Utraj, Jtraj, Xsim, Usim>>

MpcProgs == {"mpc_zero", "mpc_lqr", "mpc_con"}
SimProgs == {"open", "closed"}

\* ------------------------------------------------------- discretization
\* variant: the identity is left out
AdNoEye == MatScale(A, dt)

Ad == MatAdd(Eye(dim_x), MatScale(A, dt))

Bd == MatScale(B, dt)

Qd == MatScale(Q, dt)

Rd == MatScale(R, dt)

\* ----------------------------------------------------------- QP builder
\* X[:,0] == x_init
InitConstraint == [type |-> "init", k |-> 0]

\* X[:,k+1] == Ad@X[:,k] + Bd@U[:,k]
DynConstraint(k) == [type |-> "dyn", k |-> k]

\* quad_form(X[:,k], Qd) + quad_form(U[:,k], Rd)
StageTerm(k) == [type |-> "stage", k |-> k]

\* quad_form(X[:,N], P)
TerminalTerm(n) == [type |-> "terminal", k |-> n]

\* bound on the input
u_max == 1

\* the completion of "constraints += ##TODO" in the zero-terminal-cost cell
TodoDynamics(k) == << DynConstraint(k) >>

\* the completion of "objective+= #TODO" in the LQR-terminal-cost cell
TodoTerminal(n) == << TerminalTerm(n) >>

\* variant: the first input of the plan is left unbounded
TodoInputBoundSkipFirst(k) == IF k = 0 THEN << >> ELSE << [type |-> "ubound", k |-> k] >>

\* the completion of "constraints += #TODO" in the input-constraint cell:
\* -u_max <= U[:,k] <= u_max
TodoInputBound(k) == << [type |-> "ubound", k |-> k] >>

\* objective = 0; constraints = [X[:,0] == x_init]
ProblemStart == [objective |-> << >>, constraints |-> << InitConstraint >>]

LoopBodyZero(k, pr) ==
  [objective |-> Append(pr.objective, StageTerm(k)),
   constraints |-> pr.constraints \o TodoDynamics(k)]

\* variant: the dynamics equality is added for the first step only
LoopBodyLqrDynOnce(k, pr) ==
  [objective |-> Append(pr.objective, StageTerm(k)),
   constraints |-> IF k = 0 THEN pr.constraints \o << DynConstraint(k) >> ELSE pr.constraints]

LoopBodyLqr(k, pr) ==
  [objective |-> Append(pr.objective, StageTerm(k)),
   constraints |-> pr.constraints \o << DynConstraint(k) >>]

LoopBodyCon(k, pr) ==
  [objective |-> Append(pr.objective, StageTerm(k)),
   constraints |-> (pr.constraints \o << DynConstraint(k) >>) \o TodoInputBound(k)]

RECURSIVE BuildLoop(_, _, _, _)
\* for k in range(n): body
BuildLoop(p, k, n, pr) ==
  IF k >= n THEN pr
  ELSE BuildLoop(p, k + 1, n,
         CASE p = "mpc_zero" -> LoopBodyZero(k, pr)
           [] p = "mpc_lqr" -> LoopBodyLqr(k, pr)
           [] OTHER -> LoopBodyCon(k, pr))

\* mpc = Problem(Minimize(objective), constraints); a fresh Parameter and
\* fresh Variables have no value
Problem(objective, constraints) ==
  [objective |-> objective, constraints |-> constraints,
   x_init |-> None, U |-> None, X |-> None, status |-> "None"]

BuildZero(n) ==
  LET pr == BuildLoop("mpc_zero", 0, n, ProblemStart)
  IN Problem(pr.objective, pr.constraints)

BuildLqr(n) ==
  LET pr == BuildLoop("mpc_lqr", 0, n, ProblemStart)
  IN Problem(pr.objective \o TodoTerminal(n), pr.constraints)

\* variant: the terminal term is put on X[:,N-1]
BuildConTerminalEarly(n) ==
  LET pr == BuildLoop("mpc_con", 0, n, ProblemStart)
  IN Problem(Append(pr.objective, TerminalTerm(n - 1)), pr.constraints)

BuildCon(n) ==
  LET pr == BuildLoop("mpc_con", 0, n, ProblemStart)
  IN Problem(Append(pr.objective, TerminalTerm(n)), pr.constraints)

\* the program of a scenario before its builder cell has run
Unbuilt == Problem(<< >>, << >>)

\* ------------------------------------------------------ external solver
\* The convex solver is a black box: given the program and the value of
\* x_init it returns a minimiser of the objective over the points that
\* satisfy every constraint of the program, or reports a failure.  Control
\* values range over a bounded grid.
Abs(v) == IF v < 0 THEN 0 - v ELSE v

Controls == {<< v >> : v \in (0 - MaxU)..MaxU}

ZeroVec == [i \in 1..dim_x |-> 0]

\* values a predicted state may take when no constraint determines it
FreeStates == {ZeroVec}

HasConstraint(cs, c) == \E i \in 1..Len(cs) : cs[i] = c

\* the values of X[:,0] the constraints allow
FirstStates(cs, xi) == IF HasConstraint(cs, InitConstraint) THEN {xi} ELSE FreeStates

\* the values of X[:,k+1] the constraints allow, given X[:,k] and U[:,k]
NextStates(cs, k, xk, uk) ==
  IF HasConstraint(cs, DynConstraint(k))
  THEN {VecAdd(MatVec(Ad, xk), MatVec(Bd, uk))}
  ELSE FreeStates

RECURSIVE Rollouts(_, _, _, _)
\* S: the admissible values of X[:,0..k]; extends them to X[:,0..Len(Uv)]
Rollouts(cs, Uv, k, S) ==
  IF k >= Len(Uv) THEN S
  ELSE Rollouts(cs, Uv, k + 1,
         UNION {{Append(Xv, nx) : nx \in NextStates(cs, k, Xv[k + 1], Uv[k + 1])} : Xv \in S})

\* the input-bound constraints of the program hold of the plan Uv
InputBoundsHold(cs, Uv) ==
  \A i \in 1..Len(cs) :
    cs[i].type = "ubound" => Abs(Uv[cs[i].k + 1][1]) <= u_max

\* the points (U, X) satisfying every constraint of program p
Feasible(p, n) ==
  UNION {{[U |-> Uv, X |-> Xv] :
            Xv \in Rollouts(p.constraints, Uv, 0, {<< f >> : f \in FirstStates(p.constraints, p.x_init)})} :
         Uv \in {w \in [1..n -> Controls] : InputBoundsHold(p.constraints, w)}}

\* variant: the control cost is left out of the stage term
TermValueNoControl(term, s) ==
  IF term.type = "stage"
  THEN quad_form(s.X[term.k + 1], Qd)
  ELSE quad_form(s.X[term.k + 1], P)

\* value of one objective term at the point s
TermValue(term, s) ==
  IF term.type = "stage"
  THEN quad_form(s.X[term.k + 1], Qd) + quad_form(s.U[term.k + 1], Rd)
  ELSE quad_form(s.X[term.k + 1], P)

\* value of the objective of p at the point s
ObjectiveValue(p, s) == SumTo([i \in 1..Len(p.objective) |-> TermValue(p.objective[i], s)], Len(p.objective))

\* the minimisers of the objective over the feasible points
Optimal(p, n) ==
  LET F == Feasible(p, n)
      V == {ObjectiveValue(p, s) : s \in F}
      least == CHOOSE v \in V : \A w \in V : v <= w
  IN {s \in F : ObjectiveValue(p, s) = least}

\* warm_start argument of the solve call of each MPC loop
WarmStart(p) == p # "mpc_lqr"

\* the plan the solver iterates from: with warm start the plan of the
\* previous solve, if it left one, else the zero plan
StartIterate(p, n, warm) ==
  IF warm /\ p.U # None THEN p.U ELSE [k \in 1..n |-> << 0 >>]

\* squared distance of two plans
PlanDistance(Ua, Ub) ==
  SumTo([k \in 1..Len(Ua) |-> (Ua[k][1] - Ub[k][1]) * (Ua[k][1] - Ub[k][1])], Len(Ua))

\* the points of O nearest to the plan the iteration started from
Nearest(O, start) ==
  {s \in O : \A s2 \in O : PlanDistance(s.U, start) <= PlanDistance(s2.U, start)}

\* the points a solve may return: the iteration converges to a minimiser,
\* and where it starts decides only which minimiser it reaches
Solutions(p, n, warm) == Nearest(Optimal(p, n), StartIterate(p, n, warm))

\* -------------------------------------------------------------- MPC loop
\* variant: the first loop records the state after the plant has moved
BodyRecordAfterAdvance(p) ==
  CASE p = "mpc_zero" -> << "set_param", "solve", "advance", "record_x" >>
    [] p = "mpc_lqr" -> << "record_x", "set_param", "solve", "advance", "record_u" >>
    [] OTHER -> << "set_param", "solve", "record_x", "record_u", "advance" >>

\* statements of the loop body of each MPC cell, in source order
Body(p) ==
  CASE p = "mpc_zero" -> << "set_param", "solve", "record_x", "advance" >>
    [] p = "mpc_lqr" -> << "record_x", "set_param", "solve", "advance", "record_u" >>
    [] OTHER -> << "set_param", "solve", "record_x", "record_u", "advance" >>

Position(p, stmt) == CHOOSE i \in 1..Len(Body(p)) : Body(p)[i] = stmt

IsLast(p, stmt) == Position(p, stmt) = Len(Body(p))

\* the statement after stmt: the next one of the body, or the loop head
NextPc(p, stmt) == IF IsLast(p, stmt) THEN "for" ELSE Body(p)[Position(p, stmt) + 1]

\* variant: the parameter is set in the first tick only
SetParameterOnce(p, v) == IF p.x_init = None THEN [p EXCEPT !.x_init = v] ELSE p

\* variant: every tick also appends an initial-condition constraint
SetParameterRebuild(p, v) ==
  [p EXCEPT !.x_init = v, !.constraints = Append(@, InitConstraint)]

\* x_init.value = x
SetParameter(p, v) == [p EXCEPT !.x_init = v]

\* variant: a plan without a value yields the zero control
FirstMoveOrZero(Uv) == IF Uv = None THEN << 0 >> ELSE Uv[1]

\* U[:,0].value: None when U has no value, else its first column
FirstMove(Uv) == IF Uv = None THEN None ELSE Uv[1]

\* variant: the last move of the plan is applied instead of the first
PlantStepLastMove(xx, Uv) == VecAdd(MatVec(Ad, xx), MatVec(Bd, Uv[Len(Uv)]))

\* Ad.dot(x) + Bd.dot(U[:,0].value)
PlantStep(xx, Uv) == VecAdd(MatVec(Ad, xx), MatVec(Bd, FirstMove(Uv)))

\* NaN: what a float array stores when None is assigned to an element
np_nan == 0 - 999

\* Utraj[t] = U[:,0].value: the one-element column is stored as a scalar
ScalarOf(col) == IF col = None THEN np_nan ELSE col[1]

X0Set == { <<1, 0, 0 - 1, 0>>, <<0, 0, 1, 0>>, <<0, 1, 0, 0>> }

Init ==
  /\ prog \in MpcProgs \cup SimProgs
  /\ pc = IF prog \in MpcProgs THEN "build" ELSE "call"
  /\ exc = "none"
  /\ N \in IF prog \in MpcProgs THEN 0..MaxN ELSE {1}
  /\ steps \in 0..MaxSteps
  /\ dt \in 1..MaxDt
  /\ x0 \in X0Set
  /\ mpc = Unbuilt
  /\ x = x0
  /\ t = 0
  /\ Xtraj = << >>
  /\ Utraj = << >>
  /\ Jtraj = << >>
  /\ Xsim = << >>
  /\ Usim \in IF prog = "open" THEN [1..steps -> Controls] ELSE {<< >>}

\* variant: a dimension of 0 is accepted
ValidShapeNonneg(rows, cols) == rows >= 0 /\ cols >= 0

\* Variable(shape): cvxpy accepts a shape only if every dimension is positive
ValidShape(rows, cols) == rows > 0 /\ cols > 0

\* the builder cell
Build ==
  /\ pc = "build"
  /\ ValidShape(dim_u, N)
  /\ mpc' = CASE prog = "mpc_zero" -> BuildZero(N)
              [] prog = "mpc_lqr" -> BuildLqr(N)
              [] OTHER -> BuildCon(N)
  /\ pc' = "for"
  /\ UNCHANGED <<prog, exc, N, steps, dt, x0, x, t, Xtraj, Utraj, Jtraj, Xsim, Usim>>

\* the builder cell with a horizon for which U = Variable((dim_u, N)) raises
\* ValueError: the cell ends there and no program is built
BuildFail ==
  /\ pc = "build"
  /\ ~ValidShape(dim_u, N)
  /\ pc' = "raised"
  /\ exc' = "ValueError"
  /\ UNCHANGED <<prog, N, steps, dt, x0, mpc, x, t, Xtraj, Utraj, Jtraj, Xsim, Usim>>

\* variant: the loop runs one iteration more
ForNextOneMore ==
  /\ pc = "for"
  /\ t <= steps
  /\ pc' = Body(prog)[1]
  /\ UNCHANGED <<prog, exc, N, steps, dt, x0, mpc, x, t, Xtraj, Utraj, Jtraj, Xsim, Usim>>

\* for t in range(steps)
ForNext ==
  /\ pc = "for"
  /\ t < steps
  /\ pc' = Body(prog)[1]
  /\ UNCHANGED <<prog, exc, N, steps, dt, x0, mpc, x, t, Xtraj, Utraj, Jtraj, Xsim, Usim>>

ForExit ==
  /\ pc = "for"
  /\ t >= steps
  /\ pc' = "done"
  /\ UNCHANGED <<prog, exc, N, steps, dt, x0, mpc, x, t, Xtraj, Utraj, Jtraj, Xsim, Usim>>

\* control moves to the statement after stmt
Goto(stmt) ==
  /\ pc' = NextPc(prog, stmt)
  /\ t' = IF IsLast(prog, stmt) THEN t + 1 ELSE t

\* x_init.value = x
SetParam ==
  /\ pc = "set_param"
  /\ mpc' = SetParameter(mpc, x)
  /\ Goto("set_param")
  /\ UNCHANGED <<prog, exc, N, steps, dt, x0, x, Xtraj, Utraj, Jtraj, Xsim, Usim>>

\* Jtraj[t] = mpc.solve(...): the solver finds an optimum
SolveOptimal ==
  /\ pc = "solve"
  /\ \E s \in Solutions(mpc, N, WarmStart(prog)) :
       /\ mpc' = [mpc EXCEPT !.U = s.U, !.X = s.X, !.status = "optimal"]
       /\ Jtraj' = Append(Jtraj, ObjectiveValue(mpc, s))
  /\ Goto("solve")
  /\ UNCHANGED <<prog, exc, N, steps, dt, x0, x, Xtraj, Utraj, Xsim, Usim>>

\* the solver reports the program infeasible: solve returns inf and the
\* variables are left without a value
SolveInfeasible ==
  /\ pc = "solve"
  /\ mpc' = [mpc EXCEPT !.U = None, !.X = None, !.status = "infeasible"]
  /\ Jtraj' = Append(Jtraj, np_inf)
  /\ Goto("solve")
  /\ UNCHANGED <<prog, exc, N, steps, dt, x0, x, Xtraj, Utraj, Xsim, Usim>>

\* the solver fails (no convergence, numerical error): solve raises
SolveError ==
  /\ pc = "solve"
  /\ pc' = "raised"
  /\ exc' = "SolverError"
  /\ UNCHANGED <<prog, N, steps, dt, x0, mpc, x, t, Xtraj, Utraj, Jtraj, Xsim, Usim>>

\* Xtraj[:,t] = x
RecordX ==
  /\ pc = "record_x"
  /\ Xtraj' = Append(Xtraj, x)
  /\ Goto("record_x")
  /\ UNCHANGED <<prog, exc, N, steps, dt, x0, mpc, x, Utraj, Jtraj, Xsim, Usim>>

\* Utraj[t] = U[:,0].value
RecordU ==
  /\ pc = "record_u"
  /\ Utraj' = Append(Utraj, ScalarOf(FirstMove(mpc.U)))
  /\ Goto("record_u")
  /\ UNCHANGED <<prog, exc, N, steps, dt, x0, mpc, x, Xtraj, Jtraj, Xsim, Usim>>

\* x = Ad.dot(x) + Bd.dot(U[:,0].value)
Advance ==
  /\ pc = "advance"
  /\ FirstMove(mpc.U) # None
  /\ x' = PlantStep(x, mpc.U)
  /\ Goto("advance")
  /\ UNCHANGED <<prog, exc, N, steps, dt, x0, mpc, Xtraj, Utraj, Jtraj, Xsim, Usim>>

\* Bd.dot(None) raises TypeError; x keeps its value
AdvanceTypeError ==
  /\ pc = "advance"
  /\ FirstMove(mpc.U) = None
  /\ pc' = "raised"
  /\ exc' = "TypeError"
  /\ UNCHANGED <<prog, N, steps, dt, x0, mpc, x, t, Xtraj, Utraj, Jtraj, Xsim, Usim>>

\* ------------------------------------------------------------ simulator
\* variant: the derivative is not scaled by the time step
EulerStepNoDt(xx, uu, h) == VecAdd(xx, xdot(xx, uu))

\* xnext = x + xdot(x,u)*dt
EulerStep(xx, uu, h) == VecAdd(xx, VecScale(xdot(xx, uu), h))

RECURSIVE OpenLoopIter(_, _, _, _, _)
\* for t in range(steps): x = X[:,t]; u = U[:,t]; X[:,t+1] = xnext
OpenLoopIter(Xv, Uv, tt, n, h) ==
  IF tt >= n THEN Xv
  ELSE OpenLoopIter(Append(Xv, EulerStep(Xv[tt + 1], Uv[tt + 1], h)), Uv, tt + 1, n, h)

\* X = np.empty(...); X[:,0] = x0; the loop; return X
integrateOpenLoop(xinit, Uv, n, h) == OpenLoopIter(<< xinit >>, Uv, 0, n, h)

\* the completion of "u = #TODO" in integrateClosedLoop: u = -K x
Feedback(Kg, xx) == VecScale(MatVec(Kg, xx), 0 - 1)

RECURSIVE ClosedLoopIter(_, _, _, _, _)
\* for t in range(steps): x = X[:,t]; u = ...; X[:,t+1] = xnext; U[:,t] = u
ClosedLoopIter(r, Kg, tt, n, h) ==
  IF tt >= n THEN r
  ELSE LET u == Feedback(Kg, r.X[tt + 1])
       IN ClosedLoopIter([X |-> Append(r.X, EulerStep(r.X[tt + 1], u, h)),
                          U |-> Append(r.U, u)], Kg, tt + 1, n, h)

\* X, U = np.empty(...); X[:,0] = x0; the loop; return X, U
integrateClosedLoop(xinit, Kg, n, h) == ClosedLoopIter([X |-> << xinit >>, U |-> << >>], Kg, 0, n, h)

\* X = integrateOpenLoop(x0, U, steps, dt)
CallOpenLoop ==
  /\ pc = "call"
  /\ prog = "open"
  /\ Xsim' = integrateOpenLoop(x0, Usim, steps, dt)
  /\ pc' = "done"
  /\ UNCHANGED <<prog, exc, N, steps, dt, x0, mpc, x, t, Xtraj, Utraj, Jtraj, Usim>>

\* X, U = integrateClosedLoop(x0, K, steps, dt)
CallClosedLoop ==
  /\ pc = "call"
  /\ prog = "closed"
  /\ LET r == integrateClosedLoop(x0, K, steps, dt)
     IN /\ Xsim' = r.X
        /\ Usim' = r.U
  /\ pc' = "done"
  /\ UNCHANGED <<prog, exc, N, steps, dt, x0, mpc, x, t, Xtraj, Utraj, Jtraj>>

Next ==
  \/ Build \/ BuildFail \/ ForNext \/ ForExit \/ SetParam
  \/ SolveOptimal \/ SolveInfeasible \/ SolveError
  \/ RecordX \/ RecordU \/ Advance \/ AdvanceTypeError
  \/ CallOpenLoop \/ CallClosedLoop

Spec == Init /\ [][Next]_vars

\* ----------------------------------------------------------- properties
\* C1: the plant state changes only in the advance statement, and there the
\* successor is Ad*x + Bd*u0 with u0 the first column of the plan solved in
\* the same tick (the tick's solve has run, and the plan starts at the
\* current plant state); no other plan element reaches the plant.
OnlyFirstMoveApplied ==
  [][ /\ (x' # x => pc = "advance")
      /\ (pc = "advance" /\ pc' \notin {"advance", "raised"} =>
            /\ Len(Jtraj) = t + 1
            /\ mpc.status = "optimal"
            /\ mpc.X[1] = x
            /\ x' = VecAdd(MatVec(Ad, x), MatVec(Bd, mpc.U[1]))) ]_vars

\* a tick has applied the first move of a plan whose later move differs
FirstMoveWitness ==
  /\ prog = "mpc_con"
  /\ pc = "for"
  /\ t >= 2
  /\ N >= 2
  /\ mpc.U # None
  /\ mpc.U[1] # mpc.U[2]
  /\ x # Xtraj[t]

\* C2: in every tick x_init is set to the current plant state before the
\* solver runs and the solver runs before the plant advances: nothing is
\* solved before the parameter is set, the solve sees x_init = x, and the
\* plant advances only after this tick's solve.
TickOrder ==
  /\ [](prog \in MpcProgs =>
         /\ (pc = "set_param" => Len(Jtraj) = t)
         /\ (pc = "solve" => Len(Jtraj) = t /\ mpc.x_init = x)
         /\ (pc = "advance" => Len(Jtraj) = t + 1 /\ mpc.x_init = x))
  /\ [][ /\ (mpc'.x_init # mpc.x_init => pc = "set_param")
         /\ (Jtraj' # Jtraj => pc = "solve")
         /\ (x' # x => pc = "advance") ]_vars

\* a later tick is about to solve from a state that is not the initial one
TickOrderWitness ==
  /\ prog = "mpc_lqr"
  /\ pc = "solve"
  /\ t >= 1
  /\ mpc.x_init # x0
  /\ mpc.x_init = x

\* C3: once a solve has failed (it raised, or it reported the program
\* infeasible and left the plan without a value) the plant state never
\* changes again, no further tick starts and no further solve runs; after
\* an infeasible report only the recording statements of the same tick run
\* before the loop ends with an exception.
FailurePropagates ==
  /\ [](prog \in MpcProgs /\ mpc.status = "infeasible" =>
         /\ pc \in {"record_x", "record_u", "advance", "raised"}
         /\ Len(Jtraj) = t + 1
         /\ mpc.U = None
         /\ x = mpc.x_init)
  /\ [](pc = "raised" /\ exc # "ValueError" =>
         exc \in {"SolverError", "TypeError"} /\ x = mpc.x_init)
  /\ [][ (mpc.status = "infeasible" \/ pc = "raised") =>
            /\ x' = x
            /\ t' = t
            /\ Jtraj' = Jtraj
            /\ mpc' = mpc
            /\ pc' \notin {"for", "set_param", "solve", "done"} ]_vars

\* a solve of a later tick reported failure and the loop ended with an
\* exception, the plant where the previous tick left it
FailureWitness ==
  /\ prog = "mpc_con"
  /\ pc = "raised"
  /\ exc = "TypeError"
  /\ mpc.status = "infeasible"
  /\ t >= 1
  /\ x # x0
  /\ Len(Utraj) = t + 1

\* C4: in the input-constrained loop every control recorded from a solved
\* plan lies within the bound, |Utraj[t]| <= u_max, it is the control the
\* plant was advanced with, and the control about to be applied lies within
\* the bound.
InputBoundRespected ==
  prog = "mpc_con" =>
    /\ \A i \in 1..Len(Utraj) :
         (i <= t \/ mpc.status = "optimal") => Abs(Utraj[i]) <= u_max
    /\ \A i \in 1..t :
         (IF i < Len(Xtraj) THEN Xtraj[i + 1] ELSE x)
           = VecAdd(MatVec(Ad, Xtraj[i]), MatVec(Bd, << Utraj[i] >>))
    /\ (pc = "advance" /\ mpc.U # None => Abs(mpc.U[1][1]) <= u_max)

\* two ticks have applied controls, the first of them on the bound
InputBoundWitness ==
  /\ prog = "mpc_con"
  /\ pc = "for"
  /\ t >= 2
  /\ Abs(Utraj[1]) = u_max
  /\ x # x0

\* C5: every built program holds the initial-condition equality and
\* exactly one dynamics equality for each k in 0..N-1, and every plan a
\* solve returns is a trajectory of the discrete plant that starts at
\* x_init: X[:,0] = x_init, X[:,k+1] = Ad*X[:,k] + Bd*U[:,k].
ProgramHoldsDynamics ==
  prog \in MpcProgs /\ pc # "build" /\ exc # "ValueError" =>
    /\ Cardinality({i \in 1..Len(mpc.constraints) : mpc.constraints[i] = [type |-> "init", k |-> 0]}) = 1
    /\ \A k \in 0..(N - 1) :
         Cardinality({i \in 1..Len(mpc.constraints) : mpc.constraints[i] = [type |-> "dyn", k |-> k]}) = 1
    /\ \A i \in 1..Len(mpc.constraints) :
         mpc.constraints[i].type = "dyn" => mpc.constraints[i].k \in 0..(N - 1)
    /\ (mpc.status = "optimal" =>
          /\ Len(mpc.U) = N
          /\ Len(mpc.X) = N + 1
          /\ (Len(Jtraj) = t + 1 => mpc.X[1] = mpc.x_init)
          /\ \A k \in 1..N :
               mpc.X[k + 1] = VecAdd(MatVec(Ad, mpc.X[k]), MatVec(Bd, mpc.U[k])))

\* a plan over the longest horizon has been returned in a later tick
DynamicsWitness ==
  /\ prog = "mpc_lqr"
  /\ N = MaxN
  /\ t >= 1
  /\ pc = "advance"
  /\ mpc.status = "optimal"
  /\ mpc.X[N + 1] # mpc.X[1]

\* C6: once built, the program keeps its objective, its constraints and
\* its horizon through every step of the loop and is never built again;
\* outside the solve itself the only part of the program that changes is
\* the value of x_init.
StructureFixed ==
  [][ (prog \in MpcProgs /\ pc # "build") =>
        /\ mpc'.objective = mpc.objective
        /\ mpc'.constraints = mpc.constraints
        /\ N' = N
        /\ pc' # "build"
        /\ (pc # "solve" =>
              /\ mpc'.U = mpc.U
              /\ mpc'.X = mpc.X
              /\ mpc'.status = mpc.status) ]_vars

\* the program solved in an earlier tick has been given a new x_init
ReparameterizedWitness ==
  /\ prog = "mpc_zero"
  /\ pc = "solve"
  /\ t >= 1
  /\ mpc.status = "optimal"
  /\ mpc.x_init # x0
  /\ mpc.X[1] # mpc.x_init

\* the objective summed directly over a point: N stage terms, and the
\* terminal term on X[:,N] when withTerminal
DirectCost(Xv, Uv, n, withTerminal) ==
  SumTo([k \in 1..n |-> Dot(Xv[k], MatVec(Qd, Xv[k])) + Dot(Uv[k], MatVec(Rd, Uv[k]))], n)
    + (IF withTerminal THEN Dot(Xv[n + 1], MatVec(P, Xv[n + 1])) ELSE 0)

EulerTrajectory ==
  prog \in SimProgs /\ pc = "done" =>
    /\ Len(Xsim) = steps + 1
    /\ Len(Usim) = steps
    /\ Xsim[1] = x0
    /\ \A tt \in 1..steps :
         LET u == IF prog = "open" THEN Usim[tt]
                  ELSE << 0 - Dot(K[1], Xsim[tt]) >>
         IN /\ Usim[tt] = u
            /\ Xsim[tt + 1] =
                 [i \in 1..dim_x |->
                    Xsim[tt][i] + (Dot(A[i], Xsim[tt]) + B[i][1] * u[1]) * dt]

\* a simulation of several steps with a time step other than 1 has returned
EulerWitness ==
  /\ prog \in SimProgs
  /\ pc = "done"
  /\ steps >= 2
  /\ dt >= 2
  /\ Xsim[steps + 1] # Xsim[steps]

\* C9: the discrete successor Ad*x + Bd*u of every predicted transition of
\* a returned plan equals the simulator's Euler step with the same dt, and
\* at every tick boundary the states of the MPC loop are the trajectory
\* integrateOpenLoop returns for the controls the loop applied.
DiscreteMatchesEuler ==
  prog \in MpcProgs =>
    /\ (mpc.status = "optimal" =>
          \A k \in 1..N :
            /\ mpc.X[k + 1] = EulerStep(mpc.X[k], mpc.U[k], dt)
            /\ VecAdd(MatVec(Ad, mpc.X[k]), MatVec(Bd, mpc.U[k]))
                 = EulerStep(mpc.X[k], mpc.U[k], dt))
    /\ (prog # "mpc_zero" /\ pc \in {"for", "done"} =>
          integrateOpenLoop(x0, [i \in 1..t |-> << Utraj[i] >>], t, dt)
            = Xtraj \o << x >>)

\* the loop has run several ticks with a time step other than 1
DiscreteWitness ==
  /\ prog = "mpc_lqr"
  /\ pc = "done"
  /\ t >= 2
  /\ dt >= 2
  /\ x # Xtraj[t]

\* statements left to execute, counting the loop head as one statement: it
\* is a natural number and 0 exactly when the run has ended
Rank ==
  LET L == Len(Body(prog)) + 1
  IN CASE pc \in {"done", "raised"} -> 0
       [] pc = "call" -> 1
       [] pc = "build" -> steps * L + 2
       [] pc = "for" -> (steps - t) * L + 1
       [] OTHER -> (steps - t - 1) * L + 1 + (L - Position(prog, pc))

\* C10: a new tick starts only after the previous one has advanced the
\* plant, the solve of a later tick is parameterized with the state the
\* previous tick's control produced, a loop that ends normally has run
\* exactly `steps` ticks, a loop ends abnormally only after a failed solve,
\* and every loop ends: a run that has not ended stands at a statement of
\* its program whose operands are defined (at a solve the program has an
\* optimum to return), and every step lowers the number of statements left.
SequentialAndFinite ==
  /\ [](prog \in MpcProgs /\ pc = "solve" /\ t >= 1 =>
          /\ mpc.U # None
          /\ mpc.x_init = VecAdd(MatVec(Ad, Xtraj[t]), MatVec(Bd, mpc.U[1])))
  /\ [](prog \in MpcProgs /\ pc = "done" =>
          t = steps /\ Len(Jtraj) = steps /\ Len(Xtraj) = steps)
  /\ [](pc = "raised" /\ N >= 1 => exc = "SolverError" \/ mpc.status = "infeasible")
  /\ [](Rank >= 0 /\ (Rank = 0 <=> pc \in {"done", "raised"}))
  /\ [](pc \notin {"done", "raised"} =>
          \/ pc = "solve" /\ prog \in MpcProgs /\ mpc.x_init = x /\ Optimal(mpc, N) # {}
          \/ pc = "build" /\ prog \in MpcProgs
          \/ pc = "for" /\ prog \in MpcProgs /\ t <= steps
          \/ pc \in {"set_param", "record_x", "record_u"} /\ prog \in MpcProgs /\ t < steps
          \/ pc = "advance" /\ prog \in MpcProgs /\ t < steps
               /\ (mpc.U # None => Len(mpc.U) >= 1 /\ Len(mpc.U[1]) = dim_u)
          \/ pc = "call" /\ prog \in SimProgs /\ Len(Usim) = IF prog = "open" THEN steps ELSE 0)
  /\ [][ /\ Rank' < Rank
         /\ ((prog \in MpcProgs /\ t' # t) =>
               /\ t' = t + 1
               /\ Len(Jtraj) = t + 1
               /\ x' = VecAdd(MatVec(Ad, Xtraj[t + 1]), MatVec(Bd, mpc.U[1]))) ]_vars

\* a loop of the largest length has ended normally
FiniteWitness ==
  /\ prog = "mpc_zero"
  /\ pc = "done"
  /\ steps = MaxSteps
  /\ t = steps
  /\ x # x0
\* C11: at every solve the program has one optimal plan for the value of
\* x_init, and the solve returns it whether it is started cold or warm and
\* whatever plan an earlier solve left behind: solving again with the same
\* x_init returns the same U* and the same first move.
ResolveIdempotent ==
  prog \in MpcProgs /\ pc = "solve" =>
    LET O == Optimal(mpc, N)
    IN \E s \in O :
         /\ Solutions(mpc, N, WarmStart(prog)) = {s}
         /\ \A start \in [1..N -> Controls] : Nearest(O, start) = {s}

\* a warm-started solve is about to run from a plan that is not optimal for
\* the new x_init
ResolveWitness ==
  /\ prog = "mpc_zero"
  /\ pc = "solve"
  /\ t >= 1
  /\ N >= 2
  /\ mpc.U # None
  /\ \A s \in Optimal(mpc, N) : s.U # mpc.U

\* C12: with horizon N = 0 the builder cell fails at U = Variable((dim_u, N))
\* before a program exists: the run ends with ValueError, no loop statement
\* runs, nothing is solved or recorded and the plant keeps its initial
\* state; the plant is never advanced with a first move of an empty plan.
ZeroHorizonFailsFast ==
  prog \in MpcProgs /\ N = 0 =>
    /\ pc \in {"build", "raised"}
    /\ (pc = "raised" => exc = "ValueError")
    /\ x = x0
    /\ t = 0
    /\ mpc = Unbuilt
    /\ Xtraj = << >> /\ Utraj = << >> /\ Jtraj = << >>

\* the builder cell of the LQR-terminal-cost scenario has failed on N = 0
ZeroHorizonWitness ==
  /\ prog = "mpc_lqr"
  /\ N = 0
  /\ steps >= 1
  /\ pc = "raised"
  /\ exc = "ValueError"

\* the value a solve of the program returns for the initial state xi: inf,
\* or the optimal value
SolveValues(xi) ==
  LET p == [mpc EXCEPT !.x_init = xi]
  IN {np_inf} \cup {ObjectiveValue(p, s) : s \in Optimal(p, N)}

\* seq is extended at its end or left as it is
AppendOnly(old, new) ==
  /\ Len(new) \in {Len(old), Len(old) + 1}
  /\ SubSeq(new, 1, Len(old)) = old

\* C13: in each of the three loops the recorded trajectories agree with one
\* another at every point of the run: after t ticks each array holds t
\* entries, Xtraj[:,0] is x0, Xtraj[:,t] is the x_init of tick t's solve,
\* Jtraj[t] is a value that solve returns for it (compared when the tick
\* reaches the plant update, with both recorded), no recorded entry is
\* changed later, and where a control is recorded
\* Xtraj[:,i+1] = Ad*Xtraj[:,i] + Bd*Utraj[i].
TrajectoriesConsistent ==
  /\ [](prog \in MpcProgs =>
         /\ pc = "for" =>
              /\ Len(Xtraj) = t
              /\ Len(Jtraj) = t
              /\ Len(Utraj) = IF prog = "mpc_zero" THEN 0 ELSE t
         /\ Len(Xtraj) >= 1 => Xtraj[1] = x0
         /\ Len(Xtraj) = Len(Jtraj) /\ Len(Jtraj) >= 1 /\ pc # "solve" /\ exc # "SolverError" =>
              Xtraj[Len(Jtraj)] = mpc.x_init
         /\ pc = "advance" /\ Len(Xtraj) = t + 1 /\ Len(Jtraj) = t + 1 =>
              Jtraj[t + 1] \in SolveValues(Xtraj[t + 1])
         /\ \A i \in 1..Len(Utraj) : i + 1 <= Len(Xtraj) =>
              Xtraj[i + 1] = VecAdd(MatVec(Ad, Xtraj[i]), MatVec(Bd, << Utraj[i] >>)))
  /\ [][/\ AppendOnly(Xtraj, Xtraj')
        /\ AppendOnly(Utraj, Utraj')
        /\ AppendOnly(Jtraj, Jtraj')]_vars

\* the loop with the terminal constraint has run two ticks and recorded a
\* control that moved the plant
TrajectoriesWitness ==
  /\ prog = "mpc_con"
  /\ pc = "for"
  /\ t = 2
  /\ Len(Utraj) = 2
  /\ Utraj[1] # 0
  /\ Xtraj[2] # Xtraj[1]
  /\ Jtraj[1] # np_inf

====
